---- MODULE Spec2Model ----
(***************************************************************************)
(* econf: overlaying environment variables onto a configuration value.     *)
(*                                                                         *)
(* Strings are sequences of one-character strings, so that concatenation   *)
(* and str::to_uppercase are computed, not assumed.  Option<T> and         *)
(* Result<T, E> are sequences of length at most one: <<>> is None / Err,   *)
(* <<v>> is Some(v) / Ok(v).                                               *)
(***************************************************************************)
EXTENDS Integers, Sequences, FiniteSets, TLC

(***************************************************************************)
(* Bounds of the model.                                                    *)
(***************************************************************************)
\* number of top-level load calls in one behaviour
MaxCalls == 2
\* number of calls a program makes on a Loader it holds
MaxOps == 3

(***************************************************************************)
(* Text.                                                                   *)
(***************************************************************************)
None == <<>>
Some(v) == <<v>>

LowerCase ==
  << "a", "b", "c", "d", "e", "f", "g", "h", "i", "j", "k", "l", "m",
     "n", "o", "p", "q", "r", "s", "t", "u", "v", "w", "x", "y", "z" >>
UpperCase ==
  << "A", "B", "C", "D", "E", "F", "G", "H", "I", "J", "K", "L", "M",
     "N", "O", "P", "Q", "R", "S", "T", "U", "V", "W", "X", "Y", "Z" >>

\* char::to_uppercase on the characters of the model (ASCII)
ToUpperChar(c) ==
  IF \E i \in DOMAIN LowerCase : LowerCase[i] = c
    THEN UpperCase[CHOOSE i \in DOMAIN LowerCase : LowerCase[i] = c]
    ELSE c

\* a to_uppercase that leaves its argument as it is
ToUppercaseAsIs(s) == s

\* str::to_uppercase
ToUppercase(s) == [i \in DOMAIN s |-> ToUpperChar(s[i])]

Digits == << "0", "1", "2", "3", "4", "5", "6", "7", "8", "9" >>
IsDigit(c) == \E i \in DOMAIN Digits : Digits[i] = c
DigitVal(c) == (CHOOSE i \in DOMAIN Digits : Digits[i] = c) - 1

\* usize::to_string of a positional index (one decimal digit in the model)
IndexToString(i) == << Digits[i + 1] >>

(***************************************************************************)
(* Types taking part in LoadEnv, as the derive macro and the impl_load_env *)
(* macros see them.  A field carries its attributes: skip is               *)
(* #[econf(skip)], rename is #[econf(rename = "...")] (None when absent).  *)
(***************************************************************************)
TBool == [kind |-> "bool", fields |-> <<>>, variants |-> <<>>]
TU8 == [kind |-> "u8", fields |-> <<>>, variants |-> <<>>]
TNonZeroU8 == [kind |-> "NonZeroU8", fields |-> <<>>, variants |-> <<>>]
TString == [kind |-> "String", fields |-> <<>>, variants |-> <<>>]
TVecU8 == [kind |-> "Vec", fields |-> <<>>, variants |-> <<>>]
TUnit == [kind |-> "unit", fields |-> <<>>, variants |-> <<>>]
TNamed(fs) == [kind |-> "named", fields |-> fs, variants |-> <<>>]
TUnnamed(fs) == [kind |-> "unnamed", fields |-> fs, variants |-> <<>>]
TEnum(vs) == [kind |-> "enum", fields |-> <<>>, variants |-> vs]

Field(ident, ty) == [ident |-> ident, skip |-> FALSE, rename |-> None, ty |-> ty]
Skipped(ident, ty) == [ident |-> ident, skip |-> TRUE, rename |-> None, ty |-> ty]
Renamed(ident, name, ty) ==
  [ident |-> ident, skip |-> FALSE, rename |-> Some(name), ty |-> ty]
Variant(ident) == [ident |-> ident, rename |-> None]
RenamedVariant(ident, name) == [ident |-> ident, rename |-> Some(name)]

IsScalar(ty) == ty.kind \in {"bool", "u8", "NonZeroU8", "String"}
IsLeaf(ty) == IsScalar(ty) \/ ty.kind \in {"Vec", "enum"}

(***************************************************************************)
(* Conversions from text: what FromStr and serde_yaml do on the texts of   *)
(* the model.                                                              *)
(***************************************************************************)
U8Max == 255

\* the value of a run of decimal digits, -1 when a character is no digit or
\* the value leaves u8
RECURSIVE ParseDigits(_, _)
ParseDigits(s, acc) ==
  IF s = <<>> THEN acc
  ELSE IF ~IsDigit(Head(s)) THEN -1
  ELSE LET n == acc * 10 + DigitVal(Head(s))
       IN IF n > U8Max THEN -1 ELSE ParseDigits(Tail(s), n)

\* <u8 as FromStr>::from_str: an optional '+', then at least one digit
FromStrU8(s) ==
  LET body == IF s # <<>> /\ Head(s) = "+" THEN Tail(s) ELSE s
      n == ParseDigits(body, 0)
  IN IF body = <<>> \/ n < 0 THEN None ELSE Some(n)

\* <NonZeroU8 as FromStr>::from_str: a u8 that is not zero
FromStrNonZeroU8(s) ==
  LET r == FromStrU8(s)
  IN IF r = None \/ r = Some(0) THEN None ELSE r

\* <bool as FromStr>::from_str
FromStrBool(s) ==
  IF s = <<"t", "r", "u", "e">> THEN Some(TRUE)
  ELSE IF s = <<"f", "a", "l", "s", "e">> THEN Some(FALSE)
  ELSE None

\* <String as FromStr>::from_str never fails
FromStrString(s) == Some(s)

\* s without its leading and trailing spaces
RECURSIVE Trim(_)
Trim(s) ==
  IF s = <<>> THEN s
  ELSE IF Head(s) = " " THEN Trim(Tail(s))
  ELSE IF s[Len(s)] = " " THEN Trim(SubSeq(s, 1, Len(s) - 1))
  ELSE s

\* the pieces of s between commas
RECURSIVE Split(_, _)
Split(s, cur) ==
  IF s = <<>> THEN <<cur>>
  ELSE IF Head(s) = "," THEN <<cur>> \o Split(Tail(s), <<>>)
  ELSE Split(Tail(s), Append(cur, Head(s)))

\* serde_yaml::from_str::<Vec<u8>> on a flow sequence "[a, b, ...]"; any
\* other text of the model (a plain scalar, the empty document) is an error
FromYamlVecU8(s) ==
  IF Len(s) < 2 \/ Head(s) # "[" \/ s[Len(s)] # "]" THEN None
  ELSE LET inner == Trim(SubSeq(s, 2, Len(s) - 1))
           items == IF inner = <<>> THEN <<>> ELSE Split(inner, <<>>)
           elems == [i \in DOMAIN items |-> FromStrU8(Trim(items[i]))]
       IN IF \E i \in DOMAIN elems : elems[i] = None THEN None
          ELSE Some([i \in DOMAIN elems |-> elems[i][1]])

\* the closure handed to load_and_map, by the type it produces
Map(kind, s) ==
  CASE kind = "bool" -> FromStrBool(s)
    [] kind = "u8" -> FromStrU8(s)
    [] kind = "NonZeroU8" -> FromStrNonZeroU8(s)
    [] kind = "String" -> FromStrString(s)
    [] kind = "Vec" -> FromYamlVecU8(s)

(***************************************************************************)
(* State.                                                                  *)
(***************************************************************************)
VARIABLES
  prog,    \* the name of the program that runs
  env,     \* the process environment: key -> None or Some(text)
  data,    \* the configuration value the program holds
  arg,     \* the value handed to the latest load call
  paths,   \* Loader.paths of the latest load call when it returned
  log,     \* the records the latest load call gave to the log facade
  calls,   \* number of calls made
  held,    \* a Loader the program holds and calls itself
  hist,    \* the calls made on that Loader so far: operation and path
  out      \* the latest call on that Loader (or path built) and what it returned

vars == <<prog, env, data, arg, paths, log, calls, held, hist, out>>

(***************************************************************************)
(* Loader (loader.rs).  A call works on ctx, the Loader together with the  *)
(* log sink, and returns the value together with both.                     *)
(***************************************************************************)
Record(level, msg, path, text) ==
  [level |-> level, msg |-> msg, path |-> path, text |-> text]

\* a lookup that reads an unset variable as the empty text
EnvVarOrEmpty(key) == IF key \in DOMAIN env /\ env[key] # None THEN env[key] ELSE Some(<<>>)

\* std::env::var
EnvVar(key) == IF key \in DOMAIN env THEN env[key] ELSE None

\* a Loader that starts from the paths of the call before
LoaderKept == [paths |-> paths]

\* Loader::new
LoaderNew == [paths |-> {}]

\* an is_duplicated that returns what HashSet::insert returns
IsDuplicatedInverted(loader, path) ==
  [ret |-> path \notin loader.paths,
   loader |-> [loader EXCEPT !.paths = @ \cup {path}]]

\* Loader::is_duplicated: HashSet::insert returns false when the element was
\* already there
IsDuplicated(loader, path) ==
  [ret |-> path \in loader.paths,
   loader |-> [loader EXCEPT !.paths = @ \cup {path}]]

\* a load_and_map that looks the path up as it was built
LoadAndMapAsBuilt(ctx, fallback_value, path, kind) ==
  LET d == IsDuplicated(ctx.loader, path)
      log1 == IF d.ret
                THEN Append(ctx.log, Record("warn", "ambiguous", path, <<>>))
                ELSE ctx.log
      r == EnvVar(path)
  IN IF r = None
       THEN [v |-> fallback_value, loader |-> d.loader,
             log |-> Append(log1, Record("info", "not found", path, <<>>))]
     ELSE IF Map(kind, r[1]) = None
       THEN [v |-> fallback_value, loader |-> d.loader,
             log |-> Append(log1, Record("error", "error on parsing", path, r[1]))]
     ELSE [v |-> Map(kind, r[1])[1], loader |-> d.loader,
           log |-> Append(log1, Record("info", "found", path, r[1]))]

\* a load_and_map that leaves a path alone once it was loaded
LoadAndMapFirstWins(ctx, fallback_value, path, kind) ==
  LET p == ToUppercase(path)
      d == IsDuplicated(ctx.loader, p)
      r == EnvVar(p)
  IN IF d.ret
       THEN [v |-> fallback_value, loader |-> d.loader,
             log |-> Append(ctx.log, Record("warn", "ambiguous", p, <<>>))]
     ELSE IF r = None
       THEN [v |-> fallback_value, loader |-> d.loader,
             log |-> Append(ctx.log, Record("info", "not found", p, <<>>))]
     ELSE IF Map(kind, r[1]) = None
       THEN [v |-> fallback_value, loader |-> d.loader,
             log |-> Append(ctx.log, Record("error", "error on parsing", p, r[1]))]
     ELSE [v |-> Map(kind, r[1])[1], loader |-> d.loader,
           log |-> Append(ctx.log, Record("info", "found", p, r[1]))]

\* a load_and_map that reports a failed conversion at info level
LoadAndMapQuiet(ctx, fallback_value, path, kind) ==
  LET p == ToUppercase(path)
      d == IsDuplicated(ctx.loader, p)
      log1 == IF d.ret
                THEN Append(ctx.log, Record("warn", "ambiguous", p, <<>>))
                ELSE ctx.log
      r == EnvVar(p)
  IN IF r = None
       THEN [v |-> fallback_value, loader |-> d.loader,
             log |-> Append(log1, Record("info", "not found", p, <<>>))]
     ELSE IF Map(kind, r[1]) = None
       THEN [v |-> fallback_value, loader |-> d.loader,
             log |-> Append(log1, Record("info", "error on parsing", p, r[1]))]
     ELSE [v |-> Map(kind, r[1])[1], loader |-> d.loader,
           log |-> Append(log1, Record("info", "found", p, r[1]))]

\* Loader::load_and_map
LoadAndMap(ctx, fallback_value, path, kind) ==
  LET p == ToUppercase(path)
      d == IsDuplicated(ctx.loader, p)
      log1 == IF d.ret
                THEN Append(ctx.log, Record("warn", "ambiguous", p, <<>>))
                ELSE ctx.log
      r == EnvVar(p)
  IN IF r = None
       THEN [v |-> fallback_value, loader |-> d.loader,
             log |-> Append(log1, Record("info", "not found", p, <<>>))]
     ELSE IF Map(kind, r[1]) = None
       THEN [v |-> fallback_value, loader |-> d.loader,
             log |-> Append(log1, Record("error", "error on parsing", p, r[1]))]
     ELSE [v |-> Map(kind, r[1])[1], loader |-> d.loader,
           log |-> Append(log1, Record("info", "found", p, r[1]))]

\* a load_from_yaml that extends the fallback with what it decoded
LoadFromYamlAppend(ctx, fallback_value, path) ==
  LET r == LoadAndMap(ctx, fallback_value, path, "Vec")
      t == EnvVar(ToUppercase(path))
  IN IF t # None /\ Map("Vec", t[1]) # None
       THEN [r EXCEPT !.v = fallback_value \o r.v]
     ELSE r

\* Loader::load_from_yaml
LoadFromYaml(ctx, fallback_value, path) ==
  LoadAndMap(ctx, fallback_value, path, "Vec")

\* Loader::load_from_str
LoadFromStr(ctx, fallback_value, path, kind) ==
  LoadAndMap(ctx, fallback_value, path, kind)

(***************************************************************************)
(* The code #[derive(LoadEnv)] generates (econf-derive) and the impls of   *)
(* lib.rs.                                                                 *)
(***************************************************************************)
\* an is_skip that finds no attribute
IsSkipNever(f) == FALSE

\* is_skip
IsSkip(f) == f.skip

\* find_renaming / find_field_renaming / find_variant_renaming
FindRenaming(f) == f.rename

\* a child path built without the separator
ChildPathNoSep(kind, path, f, i) ==
  IF FindRenaming(f) # None THEN path \o FindRenaming(f)[1]
  ELSE IF kind = "named" THEN path \o f.ident
  ELSE path \o IndexToString(i - 1)

\* a child path that is upper-cased when it is built
ChildPathUpper(kind, path, f, i) ==
  IF FindRenaming(f) # None THEN ToUppercase(path \o <<"_">> \o FindRenaming(f)[1])
  ELSE IF kind = "named" THEN ToUppercase(path \o <<"_">> \o f.ident)
  ELSE ToUppercase(path \o <<"_">> \o IndexToString(i - 1))

\* the path a field is loaded with: i is the one-based position of the field
ChildPath(kind, path, f, i) ==
  IF FindRenaming(f) # None THEN path \o <<"_">> \o FindRenaming(f)[1]
  ELSE IF kind = "named" THEN path \o <<"_">> \o f.ident
  ELSE path \o <<"_">> \o IndexToString(i - 1)

\* enums1: the token a variant's match arm compares with
VariantToken(v) == IF FindRenaming(v) # None THEN FindRenaming(v)[1] ELSE v.ident

\* a match whose last arm leaves the variants of the enum
MatchEnumOutOfRange(variants, self, s, log0) ==
  IF \E i \in DOMAIN variants : VariantToken(variants[i]) = s
    THEN [v |-> CHOOSE i \in DOMAIN variants :
                  /\ VariantToken(variants[i]) = s
                  /\ \A j \in 1..(i - 1) : VariantToken(variants[j]) # s,
          log |-> log0]
  ELSE IF s = <<>> THEN [v |-> self, log |-> log0]
  ELSE [v |-> Len(variants) + 1,
        log |-> Append(log0, Record("error", "couldn't find variant", <<>>, s))]

\* a match that compares without regard to letter case
MatchEnumIgnoreCase(variants, self, s, log0) ==
  IF \E i \in DOMAIN variants : ToUppercase(VariantToken(variants[i])) = ToUppercase(s)
    THEN [v |-> CHOOSE i \in DOMAIN variants :
                  /\ ToUppercase(VariantToken(variants[i])) = ToUppercase(s)
                  /\ \A j \in 1..(i - 1) :
                       ToUppercase(VariantToken(variants[j])) # ToUppercase(s),
          log |-> log0]
  ELSE IF s = <<>> THEN [v |-> self, log |-> log0]
  ELSE [v |-> self,
        log |-> Append(log0, Record("error", "couldn't find variant", <<>>, s))]

\* a match without the "" => self arm
MatchEnumNoEmptyArm(variants, self, s, log0) ==
  IF \E i \in DOMAIN variants : VariantToken(variants[i]) = s
    THEN [v |-> CHOOSE i \in DOMAIN variants :
                  /\ VariantToken(variants[i]) = s
                  /\ \A j \in 1..(i - 1) : VariantToken(variants[j]) # s,
          log |-> log0]
  ELSE [v |-> self,
        log |-> Append(log0, Record("error", "couldn't find variant", <<>>, s))]

\* the match of a derived enum: the variants' arms in declaration order, then
\* "" => self, then x => { error!(...); self }
MatchEnum(variants, self, s, log0) ==
  IF \E i \in DOMAIN variants : VariantToken(variants[i]) = s
    THEN [v |-> CHOOSE i \in DOMAIN variants :
                  /\ VariantToken(variants[i]) = s
                  /\ \A j \in 1..(i - 1) : VariantToken(variants[j]) # s,
          log |-> log0]
  ELSE IF s = <<>> THEN [v |-> self, log |-> log0]
  ELSE [v |-> self,
        log |-> Append(log0, Record("error", "couldn't find variant", <<>>, s))]

RECURSIVE LoadEnv(_, _, _, _)
RECURSIVE LoadFields(_, _, _, _, _, _)

\* a struct expression that builds the later fields before the earlier ones
LoadFieldsReversed(ty, self, path, ctx, i, acc) ==
  IF i > Len(ty.fields) THEN [v |-> acc, loader |-> ctx.loader, log |-> ctx.log]
  ELSE LET f == ty.fields[i]
           rest == LoadFields(ty, self, path, ctx, i + 1, <<>>)
           here == IF IsSkip(f)
                     THEN [v |-> self[i], loader |-> rest.loader, log |-> rest.log]
                   ELSE LoadEnv(f.ty, self[i], ChildPath(ty.kind, path, f, i),
                                [loader |-> rest.loader, log |-> rest.log])
       IN [v |-> acc \o <<here.v>> \o rest.v, loader |-> here.loader, log |-> here.log]

\* the struct expression of a derived struct: the fields from position i on,
\* in declaration order; acc holds the fields already built
LoadFields(ty, self, path, ctx, i, acc) ==
  IF i > Len(ty.fields) THEN [v |-> acc, loader |-> ctx.loader, log |-> ctx.log]
  ELSE LET f == ty.fields[i]
       IN IF IsSkip(f)
            THEN LoadFields(ty, self, path, ctx, i + 1, Append(acc, self[i]))
            ELSE LET r == LoadEnv(f.ty, self[i], ChildPath(ty.kind, path, f, i), ctx)
                 IN LoadFields(ty, self, path, [loader |-> r.loader, log |-> r.log],
                               i + 1, Append(acc, r.v))

\* a unit struct that looks its own path up and then keeps itself
LoadEnvUnitLooksUp(ty, self, path, ctx) ==
  CASE IsScalar(ty) -> LoadFromStr(ctx, self, path, ty.kind)
    [] ty.kind = "Vec" -> LoadFromYaml(ctx, self, path)
    [] ty.kind = "enum" ->
         LET r == LoadFromStr(ctx, <<>>, path, "String")
             m == MatchEnum(ty.variants, self, r.v, r.log)
         IN [v |-> m.v, loader |-> r.loader, log |-> m.log]
    [] ty.kind \in {"named", "unnamed"} -> LoadFields(ty, self, path, ctx, 1, <<>>)
    [] ty.kind = "unit" ->
         LET r == LoadFromStr(ctx, <<>>, path, "String")
         IN [v |-> self, loader |-> r.loader, log |-> r.log]

\* LoadEnv::load of a value of type ty
LoadEnv(ty, self, path, ctx) ==
  CASE IsScalar(ty) -> LoadFromStr(ctx, self, path, ty.kind)
    [] ty.kind = "Vec" -> LoadFromYaml(ctx, self, path)
    [] ty.kind = "enum" ->
         LET r == LoadFromStr(ctx, <<>>, path, "String")
             m == MatchEnum(ty.variants, self, r.v, r.log)
         IN [v |-> m.v, loader |-> r.loader, log |-> m.log]
    [] ty.kind \in {"named", "unnamed"} -> LoadFields(ty, self, path, ctx, 1, <<>>)
    [] ty.kind = "unit" -> [v |-> self, loader |-> ctx.loader, log |-> ctx.log]

\* econf::load
Load(ty, d, prefix) == LoadEnv(ty, d, prefix, [loader |-> LoaderNew, log |-> <<>>])

(***************************************************************************)
(* The programs of the model: a configuration type, the prefix handed to   *)
(* load, the values the configuration starts from, and the environment     *)
(* keys and texts the environment is drawn from.  They follow the crate's  *)
(* documentation, tests and examples.                                      *)
(***************************************************************************)
Program(name, ty, prefix, inits, keys, texts) ==
  [name |-> name, ty |-> ty, prefix |-> prefix, inits |-> inits,
   keys |-> keys, texts |-> texts]

PREFIX == <<"P", "R", "E", "F", "I", "X">>
TxtTrue == <<"t", "r", "u", "e">>
TxtFalse == <<"f", "a", "l", "s", "e">>
Txt7 == <<"7">>
Txt9 == <<"9">>
Txt0 == <<"0">>
Txt300 == <<"3", "0", "0">>
TxtBogus == <<"B", "o", "g", "u", "s">>

\* struct A { x: bool, y: u8 }, load(a, "PREFIX")
TReadme == TNamed(<<Field(<<"x">>, TBool), Field(<<"y">>, TU8)>>)
PReadme ==
  Program("readme", TReadme, PREFIX, {<<TRUE, 42>>, <<FALSE, 42>>},
          {<<"P", "R", "E", "F", "I", "X", "_", "X">>, <<"P", "R", "E", "F", "I", "X", "_", "Y">>}, {TxtTrue, TxtFalse, Txt7, TxtBogus})

\* struct B { v1: u8, v2: u8 }
TB == TNamed(<<Field(<<"v", "1">>, TU8), Field(<<"v", "2">>, TU8)>>)

\* struct A { v1: u8, v2: B }, load(a, "PREFIX")
TNested == TNamed(<<Field(<<"v", "1">>, TU8), Field(<<"v", "2">>, TB)>>)
PNested ==
  Program("nested", TNested, PREFIX, {<<1, <<2, 3>>>>},
          {<<"P", "R", "E", "F", "I", "X", "_", "V", "1">>, <<"P", "R", "E", "F", "I", "X", "_", "V", "2">>, <<"P", "R", "E", "F", "I", "X", "_", "V", "2", "_", "V", "1">>, <<"P", "R", "E", "F", "I", "X", "_", "V", "2", "_", "V", "2">>},
          {Txt7, Txt300})

\* struct A { v2_v1: u8, v2: B }, load(a, "PREFIX")
TConflict == TNamed(<<Field(<<"v", "2", "_", "v", "1">>, TU8), Field(<<"v", "2">>, TB)>>)
PConflict ==
  Program("conflict", TConflict, PREFIX, {<<1, <<2, 3>>>>},
          {<<"P", "R", "E", "F", "I", "X", "_", "V", "2", "_", "V", "1">>, <<"P", "R", "E", "F", "I", "X", "_", "V", "2", "_", "V", "2">>}, {Txt7, Txt9, TxtBogus})

\* struct E { ambiguous: u8 }
\* struct A { prefix: E, prefix_ambiguous: bool }, load(a, "app")
TAmbiguous ==
  TNamed(<<Field(<<"p", "r", "e", "f", "i", "x">>, TNamed(<<Field(<<"a", "m", "b", "i", "g", "u", "o", "u", "s">>, TU8)>>)),
           Field(<<"p", "r", "e", "f", "i", "x", "_", "a", "m", "b", "i", "g", "u", "o", "u", "s">>, TBool)>>)
PAmbiguous ==
  Program("ambiguous", TAmbiguous, <<"a", "p", "p">>, {<<<<0>>, FALSE>>},
          {<<"A", "P", "P", "_", "P", "R", "E", "F", "I", "X", "_", "A", "M", "B", "I", "G", "U", "O", "U", "S">>}, {Txt7, TxtTrue})

\* struct Skipped { v1: bool, #[econf(skip)] v2: u8 }, load(a, "skipped")
TSkipped == TNamed(<<Field(<<"v", "1">>, TBool), Skipped(<<"v", "2">>, TU8)>>)
PSkipped ==
  Program("skipped", TSkipped, <<"s", "k", "i", "p", "p", "e", "d">>, {<<FALSE, 42>>, <<TRUE, 42>>},
          {<<"S", "K", "I", "P", "P", "E", "D", "_", "V", "1">>, <<"S", "K", "I", "P", "P", "E", "D", "_", "V", "2">>}, {TxtTrue, Txt0})

\* struct A { #[econf(skip)] v2_v1: u8, v2: B }, load(a, "PREFIX")
TSkippedAlias == TNamed(<<Skipped(<<"v", "2", "_", "v", "1">>, TU8), Field(<<"v", "2">>, TB)>>)
PSkippedAlias ==
  Program("skipped_alias", TSkippedAlias, PREFIX, {<<1, <<2, 3>>>>},
          {<<"P", "R", "E", "F", "I", "X", "_", "V", "2", "_", "V", "1">>, <<"P", "R", "E", "F", "I", "X", "_", "V", "2", "_", "V", "2">>}, {Txt7, TxtBogus})

\* enum X { V1, V2, V3 }, load(x, "PREFIX")
TX == TEnum(<<Variant(<<"V", "1">>), Variant(<<"V", "2">>), Variant(<<"V", "3">>)>>)
PEnum ==
  Program("enum", TX, PREFIX, {1, 2, 3},
          {PREFIX}, {<<"V", "1">>, <<"V", "2">>, <<"v", "2">>, TxtBogus, <<>>})

\* struct A { value1: bool, enum_value: X }, load(a, "app")
TSample == TNamed(<<Field(<<"v", "a", "l", "u", "e", "1">>, TBool), Field(<<"e", "n", "u", "m", "_", "v", "a", "l", "u", "e">>, TX)>>)
PSample ==
  Program("sample", TSample, <<"a", "p", "p">>, {<<FALSE, 1>>, <<FALSE, 3>>},
          {<<"A", "P", "P", "_", "V", "A", "L", "U", "E", "1">>, <<"A", "P", "P", "_", "E", "N", "U", "M", "_", "V", "A", "L", "U", "E">>}, {<<"V", "2">>, TxtBogus, TxtTrue})

\* struct Capital { Field: u8, FIELD: u8 }, load(a, "prefix")
TCapital == TNamed(<<Field(<<"F", "i", "e", "l", "d">>, TU8), Field(<<"F", "I", "E", "L", "D">>, TU8)>>)
PCapital ==
  Program("capital", TCapital, <<"p", "r", "e", "f", "i", "x">>, {<<1, 2>>},
          {<<"P", "R", "E", "F", "I", "X", "_", "F", "I", "E", "L", "D">>}, {Txt7, Txt9, TxtBogus})

\* struct A { x: bool, #[econf(rename = "ANOTHER_Y")] y: u8 }, load(a, "PREFIX")
TRename == TNamed(<<Field(<<"x">>, TBool), Renamed(<<"y">>, <<"A", "N", "O", "T", "H", "E", "R", "_", "Y">>, TU8)>>)
PRename ==
  Program("rename", TRename, PREFIX, {<<TRUE, 42>>},
          {<<"P", "R", "E", "F", "I", "X", "_", "X">>, <<"P", "R", "E", "F", "I", "X", "_", "Y">>, <<"A", "N", "O", "T", "H", "E", "R", "_", "Y">>, <<"P", "R", "E", "F", "I", "X", "_", "A", "N", "O", "T", "H", "E", "R", "_", "Y">>},
          {Txt7, Txt9, TxtFalse})

\* struct NonZeroNumbers { u1: NonZeroU8, u2: u8 }, load(a, "nz")
TNonZero == TNamed(<<Field(<<"u", "1">>, TNonZeroU8), Field(<<"u", "2">>, TU8)>>)
PNonZero ==
  Program("non_zero", TNonZero, <<"n", "z">>, {<<39, 2>>},
          {<<"N", "Z", "_", "U", "1">>, <<"N", "Z", "_", "U", "2">>}, {Txt0, Txt7, Txt300})

\* struct B(u8, #[econf(skip)] bool, u8), load(b, "b")
TTuple == TUnnamed(<<Field(<<>>, TU8), Skipped(<<>>, TBool), Field(<<>>, TU8)>>)
PTuple ==
  Program("tuple_struct", TTuple, <<"b">>, {<<1, FALSE, 3>>},
          {<<"B", "_", "0">>, <<"B", "_", "1">>, <<"B", "_", "2">>}, {Txt7, TxtTrue})

\* struct C; load(c, "c")
PUnit == Program("unit", TUnit, <<"c">>, {<<>>}, {<<"C">>, <<"C", "_">>}, {Txt7, <<>>})

\* struct Seqs { vec: Vec<u8>, s: String }, load(a, "seqs")
TSeqs == TNamed(<<Field(<<"v", "e", "c">>, TVecU8), Field(<<"s">>, TString)>>)
PSeqs ==
  Program("seqs", TSeqs, <<"s", "e", "q", "s">>, {<<<<1, 2, 3>>, <<"G", "o", "m", "i">>>>},
          {<<"S", "E", "Q", "S", "_", "V", "E", "C">>, <<"S", "E", "Q", "S", "_", "S">>},
          {<<"[", "2", ",", " ", "2", ",", "3", "]">>, <<"[", "]">>, <<"b", "r", "o", "k", "e", "n">>, <<"[", "1", ",", "x", "]">>})

\* enum Y { #[econf(rename = "first")] A, B, #[econf(rename = "B")] C },
\* load(y, "mode")
TY == TEnum(<<RenamedVariant(<<"A">>, <<"f", "i", "r", "s", "t">>), Variant(<<"B">>), RenamedVariant(<<"C">>, <<"B">>)>>)
PEnumRenamed ==
  Program("enum_renamed", TY, <<"m", "o", "d", "e">>, {1, 3},
          {<<"M", "O", "D", "E">>}, {<<"f", "i", "r", "s", "t">>, <<"F", "i", "r", "s", "t">>, <<"A">>, <<"B">>, <<"b">>, <<"C">>})

\* struct C; struct Holder { c: C, x: u8 }, load(h, "h")
THolder == TNamed(<<Field(<<"c">>, TUnit), Field(<<"x">>, TU8)>>)
PHolder ==
  Program("holder", THolder, <<"h">>, {<< <<>>, 5 >>},
          {<<"H">>, <<"H", "_", "C">>, <<"H", "_", "X">>}, {Txt7, TxtBogus, <<>>})

\* struct W { a: B, z: u8 }, load(w, "w")
TW == TNamed(<<Field(<<"a">>, TB), Field(<<"z">>, TU8)>>)
PWalk ==
  Program("walk", TW, <<"w">>, {<< <<2, 3>>, 1 >>},
          {<<"W", "_", "A", "_", "V", "1">>, <<"W", "_", "A", "_", "V", "2">>, <<"W", "_", "Z">>}, {Txt7, TxtBogus})

Programs ==
  {PWalk, PHolder, PReadme, PNested, PConflict, PAmbiguous, PSkipped, PSkippedAlias, PEnum,
   PSample, PCapital, PRename, PNonZero, PTuple, PUnit, PSeqs, PEnumRenamed}

(***************************************************************************)
(* The state machine: the program makes up to MaxCalls calls of load, each *)
(* on the value the call before returned.                                  *)
(***************************************************************************)
\* the program that runs: its type, its prefix
Prog == CHOOSE p \in Programs : p.name = prog

Init ==
  /\ prog \in {p.name : p \in Programs}
  /\ env \in [Prog.keys -> {None} \cup {Some(t) : t \in Prog.texts}]
  /\ data \in Prog.inits
  /\ arg = data
  /\ paths = {}
  /\ log = <<>>
  /\ calls = 0
  /\ held = [paths |-> {}]
  /\ hist = <<>>
  /\ out = [op |-> "none"]

\* let a = econf::load(a, prefix);
LoadCall ==
  /\ calls < MaxCalls
  /\ LET r == Load(Prog.ty, data, Prog.prefix)
     IN /\ arg' = data
        /\ data' = r.v
        /\ paths' = r.loader.paths
        /\ log' = r.log
  /\ calls' = calls + 1
  /\ UNCHANGED <<prog, env, held, hist, out>>

Next == LoadCall

Spec == Init /\ [][Next]_vars

(***************************************************************************)
(* A program that holds a Loader and calls its methods itself, as the      *)
(* doctests of loader.rs do.                                               *)
(***************************************************************************)
LoaderKeys == {<<"P", "R", "E", "F", "I", "X", "_", "X">>, <<"P", "R", "E", "F", "I", "X", "_", "Y">>}
LoaderTexts == {TxtTrue, Txt7, <<"[", "2", ",", " ", "2", ",", "3", "]">>}
LoaderPaths == {<<"P", "R", "E", "F", "I", "X", "_", "X">>, <<"p", "r", "e", "f", "i", "x", "_", "x">>, <<"P", "R", "E", "F", "I", "X", "_", "Y">>}
LoaderFallbacks == <<[kind |-> "bool", v |-> FALSE], [kind |-> "u8", v |-> 1]>>

InitLoader ==
  /\ prog = "readme"
  /\ env \in [LoaderKeys -> {None} \cup {Some(t) : t \in LoaderTexts}]
  /\ data = <<TRUE, 42>>
  /\ arg = data
  /\ paths = {}
  /\ log = <<>>
  /\ calls = 0
  /\ held = LoaderNew
  /\ hist = <<>>
  /\ out = [op |-> "none"]

\* let mut loader = Loader::new();
NewCall ==
  /\ calls < MaxOps
  /\ held' = LoaderNew
  /\ hist' = <<>>
  /\ out' = [op |-> "new"]
  /\ log' = <<>>
  /\ calls' = calls + 1
  /\ UNCHANGED <<prog, env, data, arg, paths>>

\* loader.is_duplicated(path)
IsDuplicatedCall(path) ==
  /\ calls < MaxOps
  /\ LET r == IsDuplicated(held, path)
     IN /\ held' = r.loader
        /\ out' = [op |-> "is_duplicated", path |-> path, ret |-> r.ret,
                   before |-> held.paths]
  /\ hist' = Append(hist, [op |-> "is_duplicated", path |-> path])
  /\ log' = <<>>
  /\ calls' = calls + 1
  /\ UNCHANGED <<prog, env, data, arg, paths>>

\* loader.load_from_str(fallback_value, path)
LoadFromStrCall(fb, path) ==
  /\ calls < MaxOps
  /\ LET r == LoadFromStr([loader |-> held, log |-> <<>>], fb.v, path, fb.kind)
     IN /\ held' = r.loader
        /\ log' = r.log
        /\ out' = [op |-> "load", path |-> path, kind |-> fb.kind,
                   fallback |-> fb.v, v |-> r.v, before |-> held.paths]
  /\ hist' = Append(hist, [op |-> "load", path |-> path])
  /\ calls' = calls + 1
  /\ UNCHANGED <<prog, env, data, arg, paths>>

\* loader.load_from_yaml(vec![1], path)
LoadFromYamlCall(path) ==
  /\ calls < MaxOps
  /\ LET r == LoadFromYaml([loader |-> held, log |-> <<>>], <<1>>, path)
     IN /\ held' = r.loader
        /\ log' = r.log
        /\ out' = [op |-> "load", path |-> path, kind |-> "Vec",
                   fallback |-> <<1>>, v |-> r.v, before |-> held.paths]
  /\ hist' = Append(hist, [op |-> "load", path |-> path])
  /\ calls' = calls + 1
  /\ UNCHANGED <<prog, env, data, arg, paths>>

NextLoader ==
  \/ NewCall
  \/ \E path \in LoaderPaths : IsDuplicatedCall(path)
  \/ \E k \in DOMAIN LoaderFallbacks, path \in LoaderPaths :
       LoadFromStrCall(LoaderFallbacks[k], path)
  \/ \E path \in LoaderPaths : LoadFromYamlCall(path)

SpecLoader == InitLoader /\ [][NextLoader]_vars

(***************************************************************************)
(* One step of the derived load of a record: the path expression of the    *)
(* field at position i, evaluated with the path the record was given.      *)
(***************************************************************************)
\* the paths a record of the program is loaded with: the prefix, and the
\* path of a field v2 when the record is nested
BasePaths == {Prog.prefix, Prog.prefix \o <<"_", "v", "2">>}

\* &(path.to_owned() + "_" + segment)
BuildPath(base, i) ==
  /\ calls = 0
  /\ Prog.ty.kind \in {"named", "unnamed"}
  /\ i \in DOMAIN Prog.ty.fields
  /\ ~IsSkip(Prog.ty.fields[i])
  /\ out' = [op |-> "child_path", base |-> base, i |-> i,
             path |-> ChildPath(Prog.ty.kind, base, Prog.ty.fields[i], i)]
  /\ calls' = calls + 1
  /\ UNCHANGED <<prog, env, data, arg, paths, log, held, hist>>

NextPath == \E base \in BasePaths, i \in 1..3 : BuildPath(base, i)

SpecPath == Init /\ [][NextPath]_vars

(***************************************************************************)
(* Vocabulary of the properties.                                           *)
(***************************************************************************)
\* what the environment holds for a key: None, or Some(text)
Setting(key) == IF key \in DOMAIN env THEN env[key] ELSE None

\* the part of value v at position pos (a sequence of one-based field indexes)
RECURSIVE GetAt(_, _)
GetAt(v, pos) == IF pos = <<>> THEN v ELSE GetAt(v[Head(pos)], Tail(pos))

RECURSIVE LeavesOf(_, _, _)
RECURSIVE LeavesFrom(_, _, _, _)

\* the leaves of the fields of a record from position i on
LeavesFrom(ty, path, pos, i) ==
  IF i > Len(ty.fields) THEN <<>>
  ELSE LET f == ty.fields[i]
           seg == IF f.rename # None THEN f.rename[1]
                  ELSE IF ty.kind = "named" THEN f.ident
                  ELSE IndexToString(i - 1)
           here == IF f.skip THEN <<>>
                   ELSE LeavesOf(f.ty, path \o <<"_">> \o seg, Append(pos, i))
       IN here \o LeavesFrom(ty, path, pos, i + 1)

\* the leaves (scalars, containers, enums) reached without crossing a skipped
\* field, in declaration order, depth first: where the leaf is in the value,
\* its type, and the key it is to be looked up with
LeavesOf(ty, path, pos) ==
  IF IsLeaf(ty) THEN <<[key |-> ToUppercase(path), pos |-> pos, ty |-> ty]>>
  ELSE LeavesFrom(ty, path, pos, 1)

Leaves == LeavesOf(Prog.ty, Prog.prefix, <<>>)

\* the skipped fields of the top-level record: position and the key the field
\* would have had
SkippedFields ==
  LET ty == Prog.ty
      seg(i) == IF ty.kind = "named" THEN ty.fields[i].ident ELSE IndexToString(i - 1)
  IN { [key |-> ToUppercase(Prog.prefix \o <<"_">> \o seg(i)), pos |-> <<i>>] :
         i \in { j \in DOMAIN ty.fields : ty.fields[j].skip } }

\* how many leaves are looked up with key p
LeavesAt(p) == Cardinality({i \in DOMAIN Leaves : Leaves[i].key = p})

\* prefix and the names of a chain of fields, joined with "_"
RECURSIVE Join(_, _)
Join(path, names) ==
  IF names = <<>> THEN path ELSE Join(path \o <<"_">> \o Head(names), Tail(names))

RECURSIVE ChainsOf(_, _, _)
RECURSIVE ChainsFrom(_, _, _, _)

\* the chains of the named fields of a record from position i on
ChainsFrom(ty, names, pos, i) ==
  IF i > Len(ty.fields) THEN <<>>
  ELSE LET f == ty.fields[i]
           here == IF f.skip \/ f.rename # None \/ ty.kind # "named" THEN <<>>
                   ELSE ChainsOf(f.ty, Append(names, f.ident), Append(pos, i))
       IN here \o ChainsFrom(ty, names, pos, i + 1)

\* the leaves reached through plain named fields, each with the field names on
\* its way
ChainsOf(ty, names, pos) ==
  IF IsLeaf(ty) THEN <<[names |-> names, pos |-> pos, ty |-> ty]>>
  ELSE ChainsFrom(ty, names, pos, 1)

Chains == ChainsOf(Prog.ty, <<>>, <<>>)

\* no character of s is a lower-case letter
IsUpper(s) == \A i \in DOMAIN s : \A k \in DOMAIN LowerCase : s[i] # LowerCase[k]

IsConsult(e) == e.msg \in {"found", "not found", "error on parsing"}
IsWarning(e) == e.level = "warn" /\ e.msg = "ambiguous"

\* how many log records of the latest call satisfy what Consults/Warnings ask
Consults(p) == Cardinality({i \in DOMAIN log : IsConsult(log[i]) /\ log[i].path = p})
Warnings(p) == Cardinality({i \in DOMAIN log : IsWarning(log[i]) /\ log[i].path = p})
Returned == calls > 0

\* what a leaf must be after the call, by the text of its own key
Absent(l) == Setting(l.key) = None
Converts(l) == Setting(l.key) # None /\ Map(l.ty.kind, Setting(l.key)[1]) # None
Fails(l) == Setting(l.key) # None /\ Map(l.ty.kind, Setting(l.key)[1]) = None
Kept(l) == GetAt(data, l.pos) = GetAt(arg, l.pos)
Overridden(l) == GetAt(data, l.pos) = Map(l.ty.kind, Setting(l.key)[1])[1]

(***************************************************************************)
(* Properties.                                                             *)
(***************************************************************************)
\* C1: when none of the upper-cased paths of the value's leaves is a key of
\* the environment, load returns a value equal to its argument.
C1_NoOverrideIsIdentity ==
  (Returned /\ \A i \in DOMAIN Leaves : Setting(Leaves[i].key) = None)
    => data = arg

\* a call returned with keys in the environment, none of them a leaf's path
C1_Witness ==
  /\ Returned
  /\ Leaves # <<>>
  /\ \A i \in DOMAIN Leaves : Setting(Leaves[i].key) = None
  /\ \E k \in DOMAIN env : env[k] # None
  /\ data = arg

\* C2: in a record of scalar fields, a field whose key is present with a text
\* that parses equals the parsed value after load, and a field whose key is
\* absent keeps its value; {x: true, y: 42} with PREFIX_X=false and PREFIX_Y
\* absent gives {x: false, y: 42}.
C2_ScalarOverride ==
  Returned =>
    /\ \A i \in DOMAIN Leaves :
         IsScalar(Leaves[i].ty) =>
           /\ Absent(Leaves[i]) => Kept(Leaves[i])
           /\ Converts(Leaves[i]) => Overridden(Leaves[i])
    /\ ( /\ prog = "readme"
         /\ arg = <<TRUE, 42>>
         /\ env[<<"P", "R", "E", "F", "I", "X", "_", "X">>] = Some(TxtFalse)
         /\ env[<<"P", "R", "E", "F", "I", "X", "_", "Y">>] = None ) => data = <<FALSE, 42>>

\* the documented run: PREFIX_X=false, PREFIX_Y unset
C2_Witness ==
  /\ Returned
  /\ prog = "readme"
  /\ arg = <<TRUE, 42>>
  /\ env[<<"P", "R", "E", "F", "I", "X", "_", "X">>] = Some(TxtFalse)
  /\ env[<<"P", "R", "E", "F", "I", "X", "_", "Y">>] = None
  /\ data = <<FALSE, 42>>

\* C3: a key that is present with a text that does not convert leaves the
\* value as it was and gives an error record with the key and the text; the
\* call returns, and the leaves after it are loaded as usual.
C3_ParseFailureKeepsValue ==
  Returned =>
    \A i \in DOMAIN Leaves :
      (Leaves[i].ty.kind # "enum" /\ Fails(Leaves[i])) =>
        /\ Kept(Leaves[i])
        /\ \E n \in DOMAIN log :
             /\ log[n].level = "error"
             /\ log[n].path = Leaves[i].key
             /\ log[n].text = Setting(Leaves[i].key)[1]
        /\ \A j \in (i + 1)..Len(Leaves) :
             /\ Consults(Leaves[j].key) > 0
             /\ (Leaves[j].ty.kind # "enum" /\ Converts(Leaves[j]))
                  => Overridden(Leaves[j])

\* NZ_U1=0 is refused by the non-zero type and NZ_U2=7 is still loaded
C3_Witness ==
  /\ Returned
  /\ prog = "non_zero"
  /\ env[<<"N", "Z", "_", "U", "1">>] = Some(Txt0)
  /\ env[<<"N", "Z", "_", "U", "2">>] = Some(Txt7)
  /\ data = <<39, 7>>
  /\ \E n \in DOMAIN log : log[n].level = "error" /\ log[n].path = <<"N", "Z", "_", "U", "1">>

\* C4: the leaf at the end of a chain of named fields is overridden by the key
\* made of the prefix and the field names joined with "_" (upper-cased); in
\* A{v1, v2: B{v1, v2}} with only PREFIX_V2_V1 set, a.v2.v1 becomes the parsed
\* value and nothing else changes.
C4_NestedPath ==
  Returned =>
    /\ \A i \in DOMAIN Chains :
         LET c == Chains[i]
             s == Setting(ToUppercase(Join(Prog.prefix, c.names)))
         IN (c.names # <<>> /\ c.ty.kind # "enum" /\ s # None /\ Map(c.ty.kind, s[1]) # None)
              => GetAt(data, c.pos) = Map(c.ty.kind, s[1])[1]
    /\ ( /\ prog = "nested"
         /\ env[<<"P", "R", "E", "F", "I", "X", "_", "V", "2", "_", "V", "1">>] = Some(Txt7)
         /\ \A k \in DOMAIN env : k # <<"P", "R", "E", "F", "I", "X", "_", "V", "2", "_", "V", "1">> => env[k] = None )
         => data = <<arg[1], <<7, arg[2][2]>>>>

\* only PREFIX_V2_V1 is set: a.v2.v1 changed, a.v1 and a.v2.v2 did not
C4_Witness ==
  /\ Returned
  /\ prog = "nested"
  /\ env[<<"P", "R", "E", "F", "I", "X", "_", "V", "2", "_", "V", "1">>] = Some(Txt7)
  /\ \A k \in DOMAIN env : k # <<"P", "R", "E", "F", "I", "X", "_", "V", "2", "_", "V", "1">> => env[k] = None
  /\ arg = <<1, <<2, 3>>>>
  /\ data = <<1, <<7, 3>>>>

\* C5: two leaves with the same upper-cased path are both loaded from that key
\* and the call gives a warning naming the path and returns; with
\* A{v2_v1, v2: B{v1, v2}} and PREFIX_V2_V1 set to a text that parses, a.v2_v1
\* and a.v2.v1 both become the parsed value.
C5_AmbiguityLoadsBoth ==
  Returned =>
    /\ \A i, j \in DOMAIN Leaves :
         (i < j /\ Leaves[i].key = Leaves[j].key) =>
           /\ Warnings(Leaves[i].key) >= 1
           /\ (Leaves[i].ty.kind # "enum" /\ Converts(Leaves[i])) => Overridden(Leaves[i])
           /\ (Leaves[j].ty.kind # "enum" /\ Converts(Leaves[j])) => Overridden(Leaves[j])
           /\ \A k \in DOMAIN Leaves : Consults(Leaves[k].key) >= 1
    /\ ( /\ prog = "conflict"
         /\ env[<<"P", "R", "E", "F", "I", "X", "_", "V", "2", "_", "V", "1">>] # None
         /\ FromStrU8(env[<<"P", "R", "E", "F", "I", "X", "_", "V", "2", "_", "V", "1">>][1]) # None )
         => /\ data[1] = FromStrU8(env[<<"P", "R", "E", "F", "I", "X", "_", "V", "2", "_", "V", "1">>][1])[1]
            /\ data[2][1] = FromStrU8(env[<<"P", "R", "E", "F", "I", "X", "_", "V", "2", "_", "V", "1">>][1])[1]
            /\ Warnings(<<"P", "R", "E", "F", "I", "X", "_", "V", "2", "_", "V", "1">>) = 1

\* PREFIX_V2_V1=7 reached a.v2_v1 and a.v2.v1, with one warning
C5_Witness ==
  /\ Returned
  /\ prog = "conflict"
  /\ env[<<"P", "R", "E", "F", "I", "X", "_", "V", "2", "_", "V", "1">>] = Some(Txt7)
  /\ env[<<"P", "R", "E", "F", "I", "X", "_", "V", "2", "_", "V", "2">>] = None
  /\ arg = <<1, <<2, 3>>>>
  /\ data = <<7, <<7, 3>>>>
  /\ Warnings(<<"P", "R", "E", "F", "I", "X", "_", "V", "2", "_", "V", "1">>) = 1

\* C6 as stated: a skipped field keeps its value, the path it would have had
\* is never in the tracker, and no log record names that path.
C6_SkipPathNeverSeen ==
  Returned =>
    \A sf \in SkippedFields :
      /\ Kept(sf)
      /\ sf.key \notin paths
      /\ \A n \in DOMAIN log : log[n].path # sf.key

\* C6: a skipped field keeps its value whatever the environment holds, and it
\* adds nothing to the tracker or the log: the path it would have had is
\* registered and named only on account of the loaded leaves that have the
\* same upper-cased path, once per such leaf.
C6_SkipExcluded ==
  Returned =>
    \A sf \in SkippedFields :
      /\ Kept(sf)
      /\ Consults(sf.key) = LeavesAt(sf.key)
      /\ Warnings(sf.key) = (IF LeavesAt(sf.key) = 0 THEN 0 ELSE LeavesAt(sf.key) - 1)
      /\ LeavesAt(sf.key) = 0 =>
           /\ sf.key \notin paths
           /\ \A n \in DOMAIN log : log[n].path # sf.key

\* SKIPPED_V1=true is loaded, SKIPPED_V2=0 is not
C6_Witness ==
  /\ Returned
  /\ prog = "skipped"
  /\ env[<<"S", "K", "I", "P", "P", "E", "D", "_", "V", "1">>] = Some(TxtTrue)
  /\ env[<<"S", "K", "I", "P", "P", "E", "D", "_", "V", "2">>] = Some(Txt0)
  /\ arg = <<FALSE, 42>>
  /\ data = <<TRUE, 42>>
  /\ <<"S", "K", "I", "P", "P", "E", "D", "_", "V", "2">> \notin paths

\* C7: an enum {V1, V2, V3}: the text "V2" gives V2; no text (unset, or the
\* empty text) gives the variant it had and no error record; "Bogus" gives the
\* variant it had and an error record with that text.
C7_EnumResolution ==
  Returned =>
    \A i \in DOMAIN Leaves :
      LET l == Leaves[i]
          s == Setting(l.key)
          errors == {n \in DOMAIN log : log[n].level = "error" /\ log[n].text = TxtBogus
                                         /\ log[n].msg = "couldn't find variant"}
      IN (l.ty = TX /\ LeavesAt(l.key) = 1) =>
           /\ s = Some(<<"V", "2">>) => GetAt(data, l.pos) = 2
           /\ (s = None \/ s = Some(<<>>)) =>
                /\ Kept(l)
                /\ \A n \in DOMAIN log :
                     log[n].level = "error" => log[n].path # l.key /\ log[n].msg # "couldn't find variant"
           /\ s = Some(TxtBogus) => (Kept(l) /\ errors # {})

\* PREFIX=Bogus: the variant stays V3 and the error is logged
C7_Witness ==
  /\ Returned
  /\ prog = "enum"
  /\ env[PREFIX] = Some(TxtBogus)
  /\ arg = 3
  /\ data = 3
  /\ \E n \in DOMAIN log : log[n].level = "error" /\ log[n].text = TxtBogus

\* C8: every path is looked up, registered and reported in upper case; the
\* fields Field and FIELD under prefix "prefix" both read PREFIX_FIELD, get the
\* same value, and count as one path for the duplicate check.
C8_UpperCasedLookup ==
  Returned =>
    /\ \A p \in paths : IsUpper(p)
    /\ \A n \in DOMAIN log : IsUpper(log[n].path)
    /\ prog = "capital" =>
         /\ paths = {<<"P", "R", "E", "F", "I", "X", "_", "F", "I", "E", "L", "D">>}
         /\ Consults(<<"P", "R", "E", "F", "I", "X", "_", "F", "I", "E", "L", "D">>) = 2
         /\ Warnings(<<"P", "R", "E", "F", "I", "X", "_", "F", "I", "E", "L", "D">>) = 1
         /\ env[<<"P", "R", "E", "F", "I", "X", "_", "F", "I", "E", "L", "D">>] = None => data = arg
         /\ (env[<<"P", "R", "E", "F", "I", "X", "_", "F", "I", "E", "L", "D">>] # None /\ FromStrU8(env[<<"P", "R", "E", "F", "I", "X", "_", "F", "I", "E", "L", "D">>][1]) # None)
              => /\ data[1] = FromStrU8(env[<<"P", "R", "E", "F", "I", "X", "_", "F", "I", "E", "L", "D">>][1])[1]
                 /\ data[2] = data[1]

\* PREFIX_FIELD=7 reached Field and FIELD, with one warning
C8_Witness ==
  /\ Returned
  /\ prog = "capital"
  /\ env[<<"P", "R", "E", "F", "I", "X", "_", "F", "I", "E", "L", "D">>] = Some(Txt7)
  /\ arg = <<1, 2>>
  /\ data = <<7, 7>>
  /\ Warnings(<<"P", "R", "E", "F", "I", "X", "_", "F", "I", "E", "L", "D">>) = 1

\* C9 as stated: a field renamed to "ANOTHER_Y" is loaded from the variable
\* ANOTHER_Y.
C9_RenameIsTheVariable ==
  ( /\ Returned
    /\ prog = "rename"
    /\ env[<<"A", "N", "O", "T", "H", "E", "R", "_", "Y">>] # None
    /\ FromStrU8(env[<<"A", "N", "O", "T", "H", "E", "R", "_", "Y">>][1]) # None )
    => data[2] = FromStrU8(env[<<"A", "N", "O", "T", "H", "E", "R", "_", "Y">>][1])[1]

\* C10: the tracker lives for one load call: a warning names a path that was
\* looked up before within the same call, the paths registered when the call
\* returns are those the call looked up, and a path looked up n times in the
\* call is warned about n - 1 times, whatever earlier calls looked up.
C10_TrackerPerCall ==
  Returned =>
    /\ \A n \in DOMAIN log :
         IsWarning(log[n]) =>
           \E m \in 1..(n - 1) : IsConsult(log[m]) /\ log[m].path = log[n].path
    /\ paths = {log[n].path : n \in {m \in DOMAIN log : IsConsult(log[m])}}
    /\ \A p \in paths : Warnings(p) = Consults(p) - 1

\* the second call looked up the paths of the first again: one warning for
\* the path two fields share, none for the other
C10_Witness ==
  /\ calls = 2
  /\ prog = "conflict"
  /\ Consults(<<"P", "R", "E", "F", "I", "X", "_", "V", "2", "_", "V", "1">>) = 2
  /\ Warnings(<<"P", "R", "E", "F", "I", "X", "_", "V", "2", "_", "V", "1">>) = 1
  /\ Consults(<<"P", "R", "E", "F", "I", "X", "_", "V", "2", "_", "V", "2">>) = 1
  /\ Warnings(<<"P", "R", "E", "F", "I", "X", "_", "V", "2", "_", "V", "2">>) = 0

(***************************************************************************)
(* Properties of a Loader the program calls itself (SpecLoader).           *)
(***************************************************************************)
\* the calls made on the Loader before the latest one
Earlier == {n \in DOMAIN hist : n < Len(hist)}

\* the path a call hands to the set of the Loader
Registered(c) == IF c.op = "is_duplicated" THEN c.path ELSE ToUppercase(c.path)

\* C11: in a sequence of is_duplicated calls on one Loader, a call returns
\* true exactly when an earlier call passed the same path; a call returning
\* false inserts the path, a call returning true leaves the set as it was,
\* and no call removes an element.
C11_IsDuplicatedTracksPaths ==
  /\ out.op = "is_duplicated" =>
       /\ (\A n \in DOMAIN hist : hist[n].op = "is_duplicated") =>
            (out.ret <=> \E n \in Earlier : hist[n].path = out.path)
       /\ ~out.ret => (out.path \notin out.before /\ held.paths = out.before \cup {out.path})
       /\ out.ret => held.paths = out.before
  /\ out.op \in {"is_duplicated", "load"} => out.before \subseteq held.paths

\* the third is_duplicated call repeats the path of the first, as in the
\* doctest: false, false, true
C11_Witness ==
  /\ Len(hist) = 3
  /\ \A n \in DOMAIN hist : hist[n].op = "is_duplicated"
  /\ hist[1].path = <<"P", "R", "E", "F", "I", "X", "_", "X">>
  /\ hist[2].path = <<"P", "R", "E", "F", "I", "X", "_", "Y">>
  /\ hist[3].path = <<"P", "R", "E", "F", "I", "X", "_", "X">>
  /\ out.op = "is_duplicated"
  /\ out.ret
  /\ held.paths = {<<"P", "R", "E", "F", "I", "X", "_", "X">>, <<"P", "R", "E", "F", "I", "X", "_", "Y">>}

\* C12 as stated: is_duplicated upper-cases its argument, so it returns true
\* for a path that differs only in letter case from one registered before.
C12_IsDuplicatedIgnoresCase ==
  ( /\ out.op = "is_duplicated"
    /\ \E n \in Earlier :
         /\ hist[n].op = "is_duplicated"
         /\ ToUppercase(hist[n].path) = ToUppercase(out.path) )
    => out.ret

\* C12: load_and_map upper-cases the path before it checks and registers it,
\* and is_duplicated takes the path as given: a load warns exactly when the
\* upper-cased path is in the set, so after a load of a path that differs only
\* in letter case; a direct is_duplicated returns true exactly when the very
\* same text is in the set.
C12_LoadAndMapNormalizes ==
  /\ out.op = "load" =>
       ((\E n \in DOMAIN log : IsWarning(log[n]) /\ log[n].path = ToUppercase(out.path))
          <=> \E n \in Earlier : Registered(hist[n]) = ToUppercase(out.path))
  /\ out.op = "is_duplicated" =>
       (out.ret <=> \E n \in Earlier : Registered(hist[n]) = out.path)

\* prefix_x was loaded, then PREFIX_X: the second load warns
C12_Witness ==
  /\ Len(hist) = 2
  /\ hist[1] = [op |-> "load", path |-> <<"p", "r", "e", "f", "i", "x", "_", "x">>]
  /\ hist[2] = [op |-> "load", path |-> <<"P", "R", "E", "F", "I", "X", "_", "X">>]
  /\ out.op = "load"
  /\ \E n \in DOMAIN log : IsWarning(log[n]) /\ log[n].path = <<"P", "R", "E", "F", "I", "X", "_", "X">>

(***************************************************************************)
(* Properties of the path a field is given (SpecPath).                     *)
(***************************************************************************)
\* C13: the path of a field is the record's path, "_", and the rename when
\* there is one, else the identifier of a named field, else the zero-based
\* position of a positional field in decimal, counted over all declared
\* positions (a skipped position before it does not shift it); the text is
\* not case-folded when the path is built.
C13_ChildPath ==
  out.op = "child_path" =>
    LET f == Prog.ty.fields[out.i]
        segment == IF f.rename # None THEN f.rename[1]
                   ELSE IF Prog.ty.kind = "named" THEN f.ident
                   ELSE << Digits[out.i] >>
    IN /\ out.path = out.base \o <<"_">> \o segment
       /\ (prog = "tuple_struct" /\ out.base = <<"b">> /\ out.i = 3) => out.path = <<"b", "_", "2">>
       /\ (prog = "capital" /\ out.base = <<"p", "r", "e", "f", "i", "x">> /\ out.i = 1) => out.path = <<"p", "r", "e", "f", "i", "x", "_", "F", "i", "e", "l", "d">>
       /\ (prog = "rename" /\ out.base = PREFIX /\ out.i = 2) => out.path = <<"P", "R", "E", "F", "I", "X", "_", "A", "N", "O", "T", "H", "E", "R", "_", "Y">>

\* the third position of B(u8, #[econf(skip)] bool, u8) under "b" is b_2
C13_Witness ==
  /\ out.op = "child_path"
  /\ prog = "tuple_struct"
  /\ out.base = <<"b">>
  /\ out.i = 3
  /\ out.path = <<"b", "_", "2">>

(***************************************************************************)
(* Properties of a load call, continued (Spec).                            *)
(***************************************************************************)
\* the token of the variant at position i of an enum type: its rename when it
\* has one, else its name
TokenAt(ty, i) ==
  IF ty.variants[i].rename # None THEN ty.variants[i].rename[1] ELSE ty.variants[i].ident

RECURSIVE UnitsOf(_, _, _)
UnitsOf(ty, path, pos) ==
  IF ty.kind = "unit" THEN {[path |-> path, pos |-> pos]}
  ELSE IF ty.kind \in {"named", "unnamed"}
    THEN UNION { UnitsOf(ty.fields[i].ty,
                         path \o <<"_">> \o (IF ty.kind = "named" THEN ty.fields[i].ident
                                             ELSE IndexToString(i - 1)),
                         Append(pos, i)) : i \in DOMAIN ty.fields }
  ELSE {}

Units == UnitsOf(Prog.ty, Prog.prefix, <<>>)

\* C15: loading a record with zero fields returns it unchanged, looks nothing
\* up, registers no path and logs nothing, whatever the environment holds:
\* a unit value loaded alone leaves the call without paths and without log
\* records, and a unit field of a record leaves no trace of its own path.
C15_UnitIsIdentity ==
  Returned =>
    /\ \A u \in Units :
         /\ GetAt(data, u.pos) = GetAt(arg, u.pos)
         /\ LeavesAt(ToUppercase(u.path)) = 0 =>
              /\ u.path \notin paths
              /\ ToUppercase(u.path) \notin paths
              /\ \A n \in DOMAIN log : log[n].path # ToUppercase(u.path) /\ log[n].path # u.path
    /\ prog = "unit" => (data = arg /\ paths = {} /\ log = <<>>)
    /\ prog = "holder" => (data[1] = arg[1] /\ paths = {<<"H", "_", "X">>})

\* a unit struct was loaded while the environment held a text under its path
C15_Witness ==
  /\ Returned
  /\ prog = "unit"
  /\ env[<<"C">>] = Some(Txt7)
  /\ data = arg
  /\ paths = {}
  /\ log = <<>>
\* the rearrangements of the positions 1..n
Perms(n) == {pi \in [1..n -> 1..n] : \A a, b \in 1..n : pi[a] = pi[b] => a = b}

\* a record type, and a value of it, with the field at position pi[i] declared
\* at position i
PermutedType(ty, pi) == [ty EXCEPT !.fields = [i \in DOMAIN ty.fields |-> ty.fields[pi[i]]]]
PermutedValue(v, pi) == [i \in DOMAIN v |-> v[pi[i]]]

\* how many records of log l equal e
CountIn(l, e) == Cardinality({n \in DOMAIN l : l[n] = e})

\* C16: for a record with named fields and a fixed environment, declaring the
\* fields in another order (each with its name, type, annotations and current
\* value) gives every field the same loaded value; the log records are the
\* same ones, in another order, and the same paths are registered.
C16_SiblingOrder ==
  (Returned /\ Prog.ty.kind = "named") =>
    \A pi \in Perms(Len(Prog.ty.fields)) :
      LET r == Load(PermutedType(Prog.ty, pi), PermutedValue(arg, pi), Prog.prefix)
      IN /\ \A i \in DOMAIN Prog.ty.fields : r.v[i] = data[pi[i]]
         /\ r.loader.paths = paths
         /\ Len(r.log) = Len(log)
         /\ \A n \in DOMAIN log : CountIn(r.log, log[n]) = CountIn(log, log[n])

\* two fields of one record shared a path whose text parsed, and the call
\* changed both
C16_Witness ==
  /\ Returned
  /\ prog = "conflict"
  /\ \E n \in DOMAIN log : IsWarning(log[n])
  /\ data[1] # arg[1]
  /\ data[2][1] # arg[2][1]
  /\ Load(PermutedType(Prog.ty, <<2, 1>>), PermutedValue(arg, <<2, 1>>), Prog.prefix).v
       = <<data[2], data[1]>>
\* the log records of the lookups, in the order they were written
ConsultLog == SelectSeq(log, IsConsult)

\* C17: one load call walks the value once, depth first, in declaration
\* order: the lookups logged are exactly one per non-skipped leaf, in the
\* depth-first declaration-order listing of the leaves (a nested record's
\* leaves before its next sibling), no record looks anything up, the paths
\* registered are the leaves' paths, and the warning of a path met before comes
\* right before its leaf's lookup and only there.
C17_DepthFirstOnce ==
  Returned =>
    /\ Len(ConsultLog) = Len(Leaves)
    /\ \A i \in DOMAIN Leaves : ConsultLog[i].path = Leaves[i].key
    /\ paths = {Leaves[i].key : i \in DOMAIN Leaves}
    /\ \A n \in DOMAIN log :
         IsWarning(log[n]) =>
           /\ n < Len(log)
           /\ IsConsult(log[n + 1])
           /\ log[n + 1].path = log[n].path
           /\ \E m \in 1..(n - 1) : IsConsult(log[m]) /\ log[m].path = log[n].path
    /\ \A n \in DOMAIN log :
         (IsConsult(log[n]) /\ \E m \in 1..(n - 1) : IsConsult(log[m]) /\ log[m].path = log[n].path)
           => (n > 1 /\ IsWarning(log[n - 1]))
    /\ prog = "walk" => [i \in DOMAIN ConsultLog |-> ConsultLog[i].path] = <<<<"W", "_", "A", "_", "V", "1">>, <<"W", "_", "A", "_", "V", "2">>, <<"W", "_", "Z">>>>
    /\ prog = "tuple_struct" => [i \in DOMAIN ConsultLog |-> ConsultLog[i].path] = <<<<"B", "_", "0">>, <<"B", "_", "2">>>>

\* a record with a nested record before a scalar sibling was loaded: the
\* nested record's two leaves were looked up before the sibling
C17_Witness ==
  /\ Returned
  /\ prog = "walk"
  /\ Len(log) = 3
  /\ log[1].path = <<"W", "_", "A", "_", "V", "1">> /\ log[1].msg = "found"
  /\ log[2].path = <<"W", "_", "A", "_", "V", "2">> /\ log[2].msg = "error on parsing"
  /\ log[3].path = <<"W", "_", "Z">> /\ log[3].msg = "not found"
\* v is a value of type ty
RECURSIVE HasShape(_, _)
HasShape(ty, v) ==
  CASE ty.kind = "bool" -> v \in BOOLEAN
    [] ty.kind = "u8" -> v \in 0..255
    [] ty.kind = "NonZeroU8" -> v \in 1..255
    [] ty.kind = "String" -> DOMAIN v = 1..Len(v)
    [] ty.kind = "Vec" -> DOMAIN v = 1..Len(v) /\ \A i \in DOMAIN v : v[i] \in 0..255
    [] ty.kind = "enum" -> v \in DOMAIN ty.variants
    [] ty.kind = "unit" -> v = <<>>
    [] ty.kind \in {"named", "unnamed"} ->
         /\ Len(v) = Len(ty.fields)
         /\ \A i \in DOMAIN ty.fields : HasShape(ty.fields[i].ty, v[i])

\* C18: whatever the environment holds (keys missing, texts that do not parse,
\* texts that name no variant, paths met twice), a load call made in any
\* state the program reaches returns, what it returns is a value of the type
\* of its argument, and the failures it met are log records and nothing else.
C18_LoadReturnsSameShape ==
  /\ HasShape(Prog.ty, data)
  /\ LET r == Load(Prog.ty, data, Prog.prefix)
     IN /\ HasShape(Prog.ty, r.v)
        /\ \A n \in DOMAIN r.log : r.log[n].level \in {"info", "warn", "error"}
  /\ Returned => (HasShape(Prog.ty, arg) /\ out.op = "none")

\* a call returned after a text that does not parse and a text that names no
\* variant
C18_Witness ==
  /\ Returned
  /\ prog = "sample"
  /\ \E n \in DOMAIN log : log[n].msg = "error on parsing"
  /\ \E n \in DOMAIN log : log[n].msg = "couldn't find variant"
  /\ HasShape(Prog.ty, data)
  /\ data = arg
(***************************************************************************)
(* Properties of the Loader, continued (SpecLoader).                       *)
(***************************************************************************)
\* the value a lookup of path p for a kind gives by the environment alone
ByEnvironment(kind, fallback, p) ==
  LET t == Setting(ToUppercase(p))
  IN IF t # None /\ Map(kind, t[1]) # None THEN Map(kind, t[1])[1] ELSE fallback

\* the trackers a Loader of the model can hold
Trackers == SUBSET (LoaderPaths \cup {ToUppercase(p) : p \in LoaderPaths})

\* C19: what the duplicate tracker holds never changes a loaded value: the
\* value load_and_map returned is the one the fallback, the path and the
\* environment give, the same on a Loader holding any other set of paths,
\* and so is the value of a derived descent started on any tracker; the
\* tracker decides the ambiguity warning and nothing else in the log.
C19_TrackerNeverChangesValue ==
  /\ out.op = "load" =>
       /\ out.v = ByEnvironment(out.kind, out.fallback, out.path)
       /\ (\E n \in DOMAIN log : IsWarning(log[n])) <=> (ToUppercase(out.path) \in out.before)
       /\ \A S \in Trackers :
            LET r == LoadAndMap([loader |-> [paths |-> S], log |-> <<>>],
                                out.fallback, out.path, out.kind)
                plain(l) == SelectSeq(l, LAMBDA e : ~IsWarning(e))
            IN /\ r.v = out.v
               /\ plain(r.log) = plain(log)
               /\ (\E n \in DOMAIN r.log : IsWarning(r.log[n])) <=> (ToUppercase(out.path) \in S)
  /\ \A S \in Trackers :
       LoadEnv(Prog.ty, data, Prog.prefix, [loader |-> held, log |-> <<>>]).v
         = LoadEnv(Prog.ty, data, Prog.prefix, [loader |-> [paths |-> S], log |-> <<>>]).v

\* a value was loaded from the environment over a path the tracker already
\* held: the warning was logged and the value is the parsed text
C19_Witness ==
  /\ out.op = "load"
  /\ ToUppercase(out.path) \in out.before
  /\ out.v # out.fallback
  /\ out.v = ByEnvironment(out.kind, out.fallback, out.path)
  /\ \E n \in DOMAIN log : IsWarning(log[n])
(***************************************************************************)
(* Properties of repeated load calls (Spec).                               *)
(***************************************************************************)
\* C20: with the environment unchanged, loading the result of a load call
\* again gives that result: a second call returns its argument, and the value
\* a call returned is a fixed point of load, whether each key is absent,
\* holds a text that parses, or holds a text that does not.
C20_LoadIdempotent ==
  /\ calls >= 2 => data = arg
  /\ Returned => Load(Prog.ty, data, Prog.prefix).v = data

\* the first call replaced a container by the decoded text and kept a string
\* aside; the second call returned what it was given
C20_Witness ==
  /\ calls = 2
  /\ prog = "seqs"
  /\ data \notin Prog.inits
  /\ data[1] = <<2, 2, 3>>
  /\ \E n \in DOMAIN log : log[n].msg = "found"
  /\ data = arg

====
